---- MODULE Spec2Model ----
(***************************************************************************)
(* Reservation availability and booking workflow of fillsin-chatbot        *)
(* (src/lib/supabase/reservations.ts) over the Supabase record store.      *)
(*                                                                         *)
(* Every `await supabase...` is one round trip to the store and one step   *)
(* of the model: what a handler does between two awaits is atomic, other   *)
(* callers may run between two steps of the same call.                     *)
(***************************************************************************)
EXTENDS Integers, Sequences, FiniteSets, TLC

\* ---------------------------------------------------------------- bounds
\* Rows the reservations table may hold.
MaxReservations == 2

\* Seat count of the restaurant the scenarios use.
SeatsR1 == 10

Procs == {"p1", "p2"}

\* "r1", "r2" and "r3" have a restaurant record, "r0" has none.
ExistingRestaurants == {"r1", "r2", "r3"}
RestaurantIds == ExistingRestaurants \cup {"r0"}
Dates == {"2025-11-22", "2025-11-23"}
Times == {"19:00"}
PartySizes == {4, 6, 8}
MenuItemIds == {"m1", "m2"}

\* ------------------------------------------------- optional values (JS)
\* An absent (undefined / null) value is {}, a present value v is {v}.
Undefined == {}

Some(v) == {v}

Get(o) == CHOOSE v \in o : TRUE

\* JS truthiness of an optional number: undefined, null and 0 are falsy.
TruthyNum(o) == o # {} /\ o # {0}

\* JS truthiness of an optional string: undefined, null and "" are falsy.
TruthyStr(o) == o # {} /\ o # {""}

\* `a || b` on an optional number a and a number b.
OrNum(o, b) == IF TruthyNum(o) THEN Get(o) ELSE b

\* `a || b` on an optional string a and a string b.
OrStr(o, b) == IF TruthyStr(o) THEN Get(o) ELSE b

\* ------------------------------------------------------------ type sets
ReservationStatus == {"pending", "confirmed", "cancelled", "completed", "no-show"}

VARIABLES
    restaurants,    \* table restaurants: id -> total_seats (optional number)
    reservations,   \* table reservations: sequence of rows, id = position
    pc,             \* per caller: the await the call in flight is stopped at
    frame,          \* per caller: the call in flight and its local variables
    last,           \* the call that just returned, until its caller has the result
    menu_items      \* table menu_items: id -> sort_order

vars == <<restaurants, reservations, pc, frame, last, menu_items>>

\* Reservation identifiers callers may name: those of the rows and one more.
Ids == 1..(MaxReservations + 1)

\* ----------------------------------------------------------- input sets
CreateInputs ==
    [restaurant_id : RestaurantIds, reservation_date : Dates,
     reservation_time : Times, party_size : PartySizes, guest_name : {"Ann"}]

Checks ==
    [restaurant_id : RestaurantIds, date : Dates, time : Times,
     party_size : PartySizes \cup {5}]

NoPatch ==
    [reservation_date |-> Undefined, reservation_time |-> Undefined,
     party_size |-> Undefined, guest_name |-> Undefined, status |-> Undefined]

\* Patches that set date, time and party_size only (any combination of them).
SlotPatches ==
    { [NoPatch EXCEPT !.reservation_date = d, !.reservation_time = t,
                      !.party_size = n] :
        d \in {Undefined} \cup {Some(x) : x \in Dates},
        t \in {Undefined} \cup {Some(x) : x \in Times},
        n \in {Undefined} \cup {Some(x) : x \in PartySizes} } \ {NoPatch}

\* Patches that set status or guest contact only.
DetailPatches ==
    { [NoPatch EXCEPT !.status = Some(s)] : s \in ReservationStatus }
        \cup { [NoPatch EXCEPT !.guest_name = Some("Bob")] }

\* The calls callers make when they run one after the other.
SerialCalls ==
    [checks |-> Checks, creates |-> CreateInputs, patches |-> SlotPatches,
     ids |-> Ids]

\* Serial calls whose updates set status or guest contact only.
DetailCalls ==
    [checks |-> {c \in Checks : c.restaurant_id = "r1"},
     creates |-> {c \in CreateInputs : c.restaurant_id = "r1"
                                /\ c.reservation_date = "2025-11-22"
                                /\ c.party_size \in {4, 6}},
     patches |-> DetailPatches,
     ids |-> Ids]

\* The calls callers make when they race for the slots of one evening.
RaceCalls ==
    [checks |-> {c \in Checks : c.restaurant_id = "r1" /\ c.party_size = 6
                                /\ c.date = "2025-11-22"},
     creates |-> {c \in CreateInputs : c.restaurant_id = "r1"
                                /\ c.party_size \in {4, 6}},
     patches |-> {[NoPatch EXCEPT !.party_size = Some(8)],
                  [NoPatch EXCEPT !.reservation_date = Some("2025-11-22")]},
     ids |-> 1..MaxReservations]

\* Calls whose party size is any number the type `number` admits, zero and
\* negative ones included.
AnySizeCalls ==
    [checks |-> [restaurant_id : {"r1"}, date : {"2025-11-22"}, time : Times,
                 party_size : {-2, 0, 5}],
     creates |-> [restaurant_id : {"r1"}, reservation_date : {"2025-11-22"},
                  reservation_time : Times, party_size : {-2, 0, 6},
                  guest_name : {"Ann"}],
     patches |-> {[NoPatch EXCEPT !.party_size = Some(n)] : n \in {-2, 0}},
     ids |-> Ids]

\* The calls of a dashboard that edits statuses and asks for summaries.
SummaryCalls ==
    [creates |-> {c \in CreateInputs : c.restaurant_id = "r1"
                                /\ c.party_size \in {4, 6}},
     patches |-> { [NoPatch EXCEPT !.status = Some(s)] :
                    s \in ReservationStatus },
     ids |-> 1..MaxReservations,
     restaurants |-> {"r1", "r2"},
     dates |-> {Undefined} \cup {Some(d) : d \in Dates}]

\* ------------------------------------------------------------ the store
\* The store's error object of a failed round trip ({ message }).
StoreError == [text |-> "store failure", remaining |-> Undefined]

\* .from('restaurants').select('total_seats').eq('id', id).single():
\* no row for the id is an error of .single(), as is a failed round trip.
SelectTotalSeats(id, ok) ==
    IF ok /\ id \in DOMAIN restaurants
    THEN [data |-> Some([total_seats |-> restaurants[id]]), error |-> Undefined]
    ELSE [data |-> Undefined, error |-> Some(StoreError)]

\* The slot filter without .eq('reservation_date', date).
SlotFilter_AnyDate(tbl, restaurant_id, date, time) ==
    { i \in 1..Len(tbl) :
        /\ tbl[i].restaurant_id = restaurant_id
        /\ tbl[i].reservation_time = time
        /\ tbl[i].status # "cancelled" }

\* The slot filter without .neq('status', 'cancelled').
SlotFilter_CountsCancelled(tbl, restaurant_id, date, time) ==
    { i \in 1..Len(tbl) :
        /\ tbl[i].restaurant_id = restaurant_id
        /\ tbl[i].reservation_date = date
        /\ tbl[i].reservation_time = time }

\* The rows .eq('restaurant_id').eq('reservation_date').eq('reservation_time')
\* .neq('status', 'cancelled') selects, as positions of the table.
SlotFilter(tbl, restaurant_id, date, time) ==
    { i \in 1..Len(tbl) :
        /\ tbl[i].restaurant_id = restaurant_id
        /\ tbl[i].reservation_date = date
        /\ tbl[i].reservation_time = time
        /\ tbl[i].status # "cancelled" }

\* .from('reservations').select('party_size') with the slot filter.
SelectPartySizes(restaurant_id, date, time, ok) ==
    IF ok
    THEN [data |-> Some([i \in SlotFilter(reservations, restaurant_id, date, time)
                            |-> reservations[i].party_size]),
          error |-> Undefined]
    ELSE [data |-> Undefined, error |-> Some(StoreError)]

\* .from('reservations').select('*').eq('id', id).single()
SelectReservation(id, ok) ==
    IF ok /\ id \in 1..Len(reservations)
    THEN [data |-> Some(reservations[id]), error |-> Undefined]
    ELSE [data |-> Undefined, error |-> Some(StoreError)]

\* The inserted row with status 'pending' in place of 'confirmed'.
InsertedRow_Pending(input) ==
    [id |-> Len(reservations) + 1,
     restaurant_id |-> input.restaurant_id,
     reservation_date |-> input.reservation_date,
     reservation_time |-> input.reservation_time,
     party_size |-> input.party_size,
     guest_name |-> input.guest_name,
     status |-> "pending"]

\* The row .insert({...input, status: 'confirmed'}) sends, with the id the
\* store gives it.
InsertedRow(input) ==
    [id |-> Len(reservations) + 1,
     restaurant_id |-> input.restaurant_id,
     reservation_date |-> input.reservation_date,
     reservation_time |-> input.reservation_time,
     party_size |-> input.party_size,
     guest_name |-> input.guest_name,
     status |-> "confirmed"]

\* A row after .update(patch): the fields the patch defines are replaced.
Patched(row, patch) ==
    [id |-> row.id,
     restaurant_id |-> row.restaurant_id,
     reservation_date |->
        IF patch.reservation_date = Undefined THEN row.reservation_date
        ELSE Get(patch.reservation_date),
     reservation_time |->
        IF patch.reservation_time = Undefined THEN row.reservation_time
        ELSE Get(patch.reservation_time),
     party_size |->
        IF patch.party_size = Undefined THEN row.party_size
        ELSE Get(patch.party_size),
     guest_name |->
        IF patch.guest_name = Undefined THEN row.guest_name
        ELSE Get(patch.guest_name),
     status |->
        IF patch.status = Undefined THEN row.status ELSE Get(patch.status)]

\* ------------------------------------------------------ checkAvailability
RECURSIVE SumOver(_, _)
\* (existingReservations || []).reduce((sum, res) => sum + res.party_size, 0)
\* over the selected rows f (position -> party_size).
SumOver(f, S) ==
    IF S = {} THEN 0
    ELSE LET i == CHOOSE x \in S : TRUE IN f[i] + SumOver(f, S \ {i})

TotalBooked(resp) ==
    IF resp.data = Undefined THEN 0
    ELSE SumOver(Get(resp.data), DOMAIN Get(resp.data))

RestaurantNotFound ==
    [available |-> FALSE,
     reason |-> Some([text |-> "Restaurant not found", remaining |-> Undefined]),
     current_bookings |-> Undefined, total_seats |-> Undefined]

\* checkAvailability refusing a party that fills the slot exactly (>= for >).
AvailabilityOf_OffByOne(check, restaurant, resp) ==
    LET totalBooked == TotalBooked(resp)
        newTotal == totalBooked + check.party_size
        totalSeats == OrNum(restaurant.total_seats, 0)
    IN  IF newTotal >= totalSeats
        THEN [available |-> FALSE,
              reason |-> Some([text |-> "Not enough seats available.",
                               remaining |-> Some(totalSeats - totalBooked)]),
              current_bookings |-> Some(totalBooked),
              total_seats |-> Some(totalSeats)]
        ELSE [available |-> TRUE, reason |-> Undefined,
              current_bookings |-> Some(totalBooked),
              total_seats |-> Some(totalSeats)]

\* checkAvailability taking a null total_seats for no limit.
AvailabilityOf_NullUnlimited(check, restaurant, resp) ==
    LET totalBooked == TotalBooked(resp)
        newTotal == totalBooked + check.party_size
        totalSeats == OrNum(restaurant.total_seats, 0)
    IN  IF restaurant.total_seats # Undefined /\ newTotal > totalSeats
        THEN [available |-> FALSE,
              reason |-> Some([text |-> "Not enough seats available.",
                               remaining |-> Some(totalSeats - totalBooked)]),
              current_bookings |-> Some(totalBooked),
              total_seats |-> Some(totalSeats)]
        ELSE [available |-> TRUE, reason |-> Undefined,
              current_bookings |-> Some(totalBooked),
              total_seats |-> Some(totalSeats)]

\* Steps 3 and 4 of checkAvailability: the sum and the capacity test.
AvailabilityOf(check, restaurant, resp) ==
    LET totalBooked == TotalBooked(resp)
        newTotal == totalBooked + check.party_size
        totalSeats == OrNum(restaurant.total_seats, 0)
    IN  IF newTotal > totalSeats
        THEN [available |-> FALSE,
              reason |-> Some([text |-> "Not enough seats available.",
                               remaining |-> Some(totalSeats - totalBooked)]),
              current_bookings |-> Some(totalBooked),
              total_seats |-> Some(totalSeats)]
        ELSE [available |-> TRUE, reason |-> Undefined,
              current_bookings |-> Some(totalBooked),
              total_seats |-> Some(totalSeats)]

\* availability.reason || fallback
ReasonOr(reason, fallback) ==
    IF reason # Undefined /\ Get(reason).text # "" THEN Get(reason)
    ELSE [text |-> fallback, remaining |-> Undefined]

\* Outcomes of a round trip to the store: it answers (TRUE) or fails (FALSE).
Reliable == {TRUE}

Unreliable == BOOLEAN

\* ---------------------------------------------------------------- calls
Idle == [op |-> "none"]

\* The frame of a call that starts: its arguments, its local variables, and
\* for the record the table it found and the round trips that failed.
NewFrame(op, id, arg, check) ==
    [op |-> op, id |-> id, arg |-> arg, check |-> check,
     restaurant |-> [total_seats |-> Undefined],
     availability |-> Undefined,
     pre |-> reservations, faults |-> {}]

\* Frame f after the round trip `trip`, which the store answered (ok) or not.
Noted(f, trip, ok) ==
    IF ok THEN f ELSE [f EXCEPT !.faults = @ \cup {trip}]

\* The call of caller p returns ret: it is the call that just returned.
Return(p, f, ret) ==
    /\ pc' = [pc EXCEPT ![p] = "idle"]
    /\ frame' = [frame EXCEPT ![p] = Idle]
    /\ last' = [op |-> f.op, id |-> f.id, arg |-> f.arg, ret |-> ret,
                availability |-> f.availability,
                pre |-> f.pre, faults |-> f.faults]

\* The call of caller p stops at its next await.
Await(p, f, at) ==
    /\ pc' = [pc EXCEPT ![p] = at]
    /\ frame' = [frame EXCEPT ![p] = f]
    /\ last' = last

\* createReservation and updateReservation going on to their write whatever
\* the availability check reported (the early return left out).
AfterAvailability_NoReturn(p, f, availability) ==
    LET g == [f EXCEPT !.availability = Some(availability)] IN
    /\ UNCHANGED reservations
    /\ CASE g.op = "checkAvailability" -> Return(p, g, availability)
         [] g.op = "createReservation" -> Await(p, g, "insert")
         [] g.op = "updateReservation" -> Await(p, g, "update")

\* What the caller of checkAvailability does with its result: the function
\* itself returns it, createReservation and updateReservation return its
\* reason as their error or go on to their write.
AfterAvailability(p, f, availability) ==
    LET g == [f EXCEPT !.availability = Some(availability)] IN
    /\ UNCHANGED reservations
    /\ CASE g.op = "checkAvailability" -> Return(p, g, availability)
         [] g.op = "createReservation" ->
                IF ~availability.available
                THEN Return(p, g,
                        [data |-> Undefined,
                         error |-> Some(ReasonOr(availability.reason,
                                                 "Reservation not available"))])
                ELSE Await(p, g, "insert")
         [] g.op = "updateReservation" ->
                IF ~availability.available
                THEN Return(p, g,
                        [data |-> Undefined,
                         error |-> Some(ReasonOr(availability.reason,
                                                 "New time slot not available"))])
                ELSE Await(p, g, "update")

\* checkAvailability going on without a restaurant row (the
\* `restaurantError || !restaurant` test left out).
RestaurantStep_Unchecked(p, f, ok) ==
    LET resp == SelectTotalSeats(f.check.restaurant_id, ok)
        g == Noted(f, "restaurant", ok)
    IN  /\ Await(p, [g EXCEPT !.restaurant =
                        IF resp.data = Undefined
                        THEN [total_seats |-> Undefined]
                        ELSE Get(resp.data)],
                 "bookings")
        /\ UNCHANGED reservations

\* checkAvailability, step 1: the restaurant's capacity.
RestaurantStep(p, f, ok) ==
    LET resp == SelectTotalSeats(f.check.restaurant_id, ok)
        g == Noted(f, "restaurant", ok)
    IN  IF resp.error # Undefined \/ resp.data = Undefined
        THEN AfterAvailability(p, g, RestaurantNotFound)
        ELSE /\ Await(p, [g EXCEPT !.restaurant = Get(resp.data)], "bookings")
             /\ UNCHANGED reservations

\* checkAvailability, steps 2 to 4: the slot's reservations and the verdict.
BookingsStep(p, f, ok) ==
    LET resp == SelectPartySizes(f.check.restaurant_id, f.check.date,
                                 f.check.time, ok)
    IN  AfterAvailability(p, Noted(f, "bookings", ok),
                          AvailabilityOf(f.check, f.restaurant, resp))

\* Rows already in the table or about to be inserted by a call in flight.
Claimed ==
    Len(reservations)
        + Cardinality({q \in Procs : frame[q].op = "createReservation"})

\* checkAvailability(check), up to its first await.
checkAvailability(p, check, store) ==
    /\ pc[p] = "idle"
    /\ last = Idle
    /\ \E ok \in store :
        RestaurantStep(p, NewFrame("checkAvailability", Undefined, check, check), ok)
    /\ UNCHANGED <<restaurants, menu_items>>

\* createReservation(input), up to the first await of its availability check.
createReservation(p, input, store) ==
    /\ pc[p] = "idle"
    /\ last = Idle
    /\ Claimed < MaxReservations
    /\ \E ok \in store :
        RestaurantStep(p,
            NewFrame("createReservation", Undefined, input,
                     [date |-> input.reservation_date,
                      time |-> input.reservation_time,
                      party_size |-> input.party_size,
                      restaurant_id |-> input.restaurant_id]),
            ok)
    /\ UNCHANGED <<restaurants, menu_items>>

\* The .update(input).eq('id', id).select().single() of updateReservation:
\* .single() makes a filter that matches no row an error, which is thrown
\* and caught.
UpdateStep(p, f, ok) ==
    LET g == Noted(f, "write", ok) IN
    IF ok /\ Get(f.id) \in 1..Len(reservations)
    THEN LET row == Patched(reservations[Get(f.id)], f.arg) IN
         /\ reservations' = [reservations EXCEPT ![Get(f.id)] = row]
         /\ Return(p, g, [data |-> Some(row), error |-> Undefined])
    ELSE /\ UNCHANGED reservations
         /\ Return(p, g, [data |-> Undefined, error |-> Some(StoreError)])

\* The .insert(...).select().single() of createReservation.
InsertStep(p, f, ok) ==
    LET g == Noted(f, "write", ok) IN
    IF ok
    THEN LET row == InsertedRow(f.arg) IN
         /\ reservations' = Append(reservations, row)
         /\ Return(p, g, [data |-> Some(row), error |-> Undefined])
    ELSE /\ UNCHANGED reservations
         /\ Return(p, g, [data |-> Undefined, error |-> Some(StoreError)])

\* updateReservation running its availability check for every patch.
TouchesSlot_Always(input) == TRUE

\* input.reservation_date || input.reservation_time || input.party_size
TouchesSlot(input) ==
    \/ TruthyStr(input.reservation_date)
    \/ TruthyStr(input.reservation_time)
    \/ TruthyNum(input.party_size)

\* getReservationById(id): the row, or null when .single() finds none or the
\* round trip fails (the error is thrown, caught and logged).
getReservationById(id, ok) == SelectReservation(id, ok).data

\* The availability check updateReservation asks for: the patch's date, time
\* and party size where it has them, the current reservation's otherwise.
MergedCheck(input, cur) ==
    [date |-> OrStr(input.reservation_date, cur.reservation_date),
     time |-> OrStr(input.reservation_time, cur.reservation_time),
     party_size |-> OrNum(input.party_size, cur.party_size),
     restaurant_id |-> cur.restaurant_id]

\* updateReservation(id, input), up to its first await.
updateReservation(p, id, input, store) ==
    /\ pc[p] = "idle"
    /\ last = Idle
    /\ UNCHANGED <<restaurants, menu_items>>
    /\ \E ok \in store :
        LET f == NewFrame("updateReservation", Some(id), input, Undefined) IN
        IF TouchesSlot(input)
        THEN LET currentReservation == getReservationById(id, ok)
                 g == Noted(f, "reservation", ok)
             IN  /\ UNCHANGED reservations
                 /\ IF currentReservation = Undefined
                    THEN Return(p, g,
                            [data |-> Undefined,
                             error |-> Some([text |-> "Reservation not found",
                                             remaining |-> Undefined])])
                    ELSE Await(p,
                            [g EXCEPT !.check =
                                MergedCheck(input, Get(currentReservation))],
                            "restaurant")
        ELSE UpdateStep(p, f, ok)

\* The update of cancelReservation without its .eq('id', id) filter.
CancelUpdate_AllRows(tbl, id) ==
    [i \in 1..Len(tbl) |-> [tbl[i] EXCEPT !.status = "cancelled"]]

\* The table after .update({ status: 'cancelled' }).eq('id', id). Without
\* .single() a filter that matches no row is no error.
CancelUpdate(tbl, id) ==
    [i \in 1..Len(tbl) |->
        IF i = id THEN [tbl[i] EXCEPT !.status = "cancelled"] ELSE tbl[i]]

\* cancelReservation(id): one round trip.
cancelReservation(p, id, store) ==
    /\ pc[p] = "idle"
    /\ last = Idle
    /\ UNCHANGED <<restaurants, menu_items>>
    /\ \E ok \in store :
        LET f == Noted(NewFrame("cancelReservation", Some(id), Undefined,
                                Undefined), "write", ok)
        IN  IF ok
            THEN /\ reservations' = CancelUpdate(reservations, id)
                 /\ Return(p, f, [success |-> TRUE, error |-> Undefined])
            ELSE /\ UNCHANGED reservations
                 /\ Return(p, f, [success |-> FALSE, error |-> Some(StoreError)])

\* ------------------------------------------------- getReservationSummary
\* The order of the store on reservation_date: ISO dates compare as their
\* days do.
DateRank == [d \in Dates |-> IF d = "2025-11-22" THEN 1 ELSE 2]

\* .from('reservations').select('status, party_size').eq('restaurant_id')
\* with .gte('reservation_date', date_from) and .lte('reservation_date',
\* date_to) when these are given: the rows selected, as positions of the table.
SummaryFilter(tbl, restaurant_id, date_from, date_to) ==
    { i \in 1..Len(tbl) :
        /\ tbl[i].restaurant_id = restaurant_id
        /\ TruthyStr(date_from) =>
                DateRank[tbl[i].reservation_date] >= DateRank[Get(date_from)]
        /\ TruthyStr(date_to) =>
                DateRank[tbl[i].reservation_date] <= DateRank[Get(date_to)] }

SelectStatusAndPartySize(restaurant_id, date_from, date_to, ok) ==
    IF ok
    THEN [data |-> Some([i \in SummaryFilter(reservations, restaurant_id,
                                             date_from, date_to)
                            |-> [status |-> reservations[i].status,
                                 party_size |-> reservations[i].party_size]]),
          error |-> Undefined]
    ELSE [data |-> Undefined, error |-> Some(StoreError)]

EmptySummary ==
    [total_reservations |-> 0, confirmed |-> 0, cancelled |-> 0,
     completed |-> 0, no_shows |-> 0, total_guests |-> 0]

\* The forEach callback leaving the guests of cancelled reservations out of
\* total_guests.
Tally_ActiveGuests(summary, reservation) ==
    CASE reservation.status \in {"confirmed", "pending"} ->
            [summary EXCEPT !.confirmed = @ + 1,
                            !.total_guests = @ + reservation.party_size]
      [] reservation.status = "cancelled" ->
            [summary EXCEPT !.cancelled = @ + 1]
      [] reservation.status = "completed" ->
            [summary EXCEPT !.completed = @ + 1,
                            !.total_guests = @ + reservation.party_size]
      [] reservation.status = "no-show" ->
            [summary EXCEPT !.no_shows = @ + 1,
                            !.total_guests = @ + reservation.party_size]
      [] OTHER -> [summary EXCEPT !.total_guests = @ + reservation.party_size]

\* The forEach callback: the guests are added, then the status is counted.
Tally(summary, reservation) ==
    LET counted == [summary EXCEPT !.total_guests = @ + reservation.party_size]
    IN  CASE reservation.status \in {"confirmed", "pending"} ->
                [counted EXCEPT !.confirmed = @ + 1]
          [] reservation.status = "cancelled" ->
                [counted EXCEPT !.cancelled = @ + 1]
          [] reservation.status = "completed" ->
                [counted EXCEPT !.completed = @ + 1]
          [] reservation.status = "no-show" ->
                [counted EXCEPT !.no_shows = @ + 1]
          [] OTHER -> counted

RECURSIVE ForEach(_, _, _)
\* data.forEach(...) over the selected rows (position -> row).
ForEach(data, S, summary) ==
    IF S = {} THEN summary
    ELSE LET i == CHOOSE x \in S : TRUE
         IN  ForEach(data, S \ {i}, Tally(summary, data[i]))

\* The summary of an answered query.
SummaryOf(data) ==
    ForEach(data, DOMAIN data,
            [EmptySummary EXCEPT !.total_reservations = Cardinality(DOMAIN data)])

\* getReservationSummary(restaurant_id, date_from, date_to): one round trip.
getReservationSummary(p, restaurant_id, date_from, date_to, store) ==
    /\ pc[p] = "idle"
    /\ last = Idle
    /\ UNCHANGED <<restaurants, reservations, menu_items>>
    /\ \E ok \in store :
        LET f == Noted(NewFrame("getReservationSummary", Undefined,
                                [restaurant_id |-> restaurant_id,
                                 date_from |-> date_from, date_to |-> date_to],
                                Undefined), "read", ok)
            resp == SelectStatusAndPartySize(restaurant_id, date_from,
                                             date_to, ok)
        IN  IF resp.error # Undefined
            THEN Return(p, f, EmptySummary)
            ELSE Return(p, f, SummaryOf(Get(resp.data)))

\* ------------------------------------------------------ reorderMenuItems
\* The `updates` arrays callers pass: a new sort_order for some of the items.
ReorderInputs ==
    UNION { [S -> {1, 2}] : S \in SUBSET MenuItemIds }

\* reorderMenuItems(updates), up to `await Promise.all(promises)`: one write
\* per element of updates is on its way to the store. Of no write the
\* promise waits for anything.
reorderMenuItems(p, updates) ==
    /\ pc[p] = "idle"
    /\ last = Idle
    /\ UNCHANGED <<restaurants, reservations, menu_items>>
    /\ LET f == [pending |-> DOMAIN updates]
                    @@ [NewFrame("reorderMenuItems", Undefined, updates,
                                 Undefined) EXCEPT !.pre = menu_items]
       IN  IF DOMAIN updates = {}
           THEN Return(p, f, [success |-> TRUE, error |-> Undefined])
           ELSE Await(p, f, "reorder")

\* One of the writes .update({ sort_order }).eq('id', update.id) reaches the
\* store, which applies it or answers with an error object; the promise of
\* the write resolves either way. With the last of them Promise.all
\* resolves and the function returns { success: true, error: null }.
ReorderWrite(p, store) ==
    /\ pc[p] = "reorder"
    /\ last = Idle
    /\ UNCHANGED <<restaurants, reservations>>
    /\ \E id \in frame[p].pending, ok \in store :
        LET f == [Noted(frame[p], id, ok) EXCEPT !.pending = @ \ {id}] IN
        /\ menu_items' = IF ok THEN [menu_items EXCEPT ![id] = f.arg[id]]
                                ELSE menu_items
        /\ IF f.pending = {}
           THEN Return(p, f, [success |-> TRUE, error |-> Undefined])
           ELSE Await(p, f, "reorder")

\* ------------------------------------------------------ updateRestaurant
\* The UpdateRestaurantInput values callers pass, as far as total_seats goes:
\* the field is left out, or set to null or to a number.
RestaurantPatches ==
    UNION { [S -> {Undefined, Some(4), Some(SeatsR1)}] :
                S \in SUBSET {"total_seats"} }

\* updateRestaurant(id, input): one round trip,
\* .update(input).eq('id', id).select().single(); no row for the id is an
\* error of .single().
updateRestaurant(p, id, input, store) ==
    /\ pc[p] = "idle"
    /\ last = Idle
    /\ UNCHANGED <<reservations, menu_items>>
    /\ \E ok \in store :
        LET f == Noted(NewFrame("updateRestaurant", Some(id), input, Undefined),
                       "write", ok)
        IN  IF ok /\ id \in DOMAIN restaurants
            THEN LET row == IF "total_seats" \in DOMAIN input
                            THEN input["total_seats"] ELSE restaurants[id]
                 IN  /\ restaurants' = [restaurants EXCEPT ![id] = row]
                     /\ Return(p, f, [data |-> Some([id |-> id,
                                                     total_seats |-> row]),
                                      error |-> Undefined])
            ELSE /\ UNCHANGED restaurants
                 /\ Return(p, f, [data |-> Undefined,
                                  error |-> Some(StoreError)])

\* A call in flight resumes at the await it stopped at.
Resume(p, store) ==
    /\ pc[p] # "idle"
    /\ last = Idle
    /\ UNCHANGED <<restaurants, menu_items>>
    /\ \E ok \in store :
        CASE pc[p] = "restaurant" -> RestaurantStep(p, frame[p], ok)
          [] pc[p] = "bookings" -> BookingsStep(p, frame[p], ok)
          [] pc[p] = "insert" -> InsertStep(p, frame[p], ok)
          [] pc[p] = "update" -> UpdateStep(p, frame[p], ok)

Init ==
    /\ restaurants = [r \in ExistingRestaurants |->
                        CASE r = "r1" -> Some(SeatsR1)
                          [] r = "r2" -> Undefined
                          [] r = "r3" -> Some(0)]
    /\ menu_items = [m \in MenuItemIds |-> 0]
    /\ reservations = <<>>
    /\ pc = [p \in Procs |-> "idle"]
    /\ frame = [p \in Procs |-> Idle]
    /\ last = Idle

\* The caller of the call that just returned receives its result.
Observe ==
    /\ last # Idle
    /\ last' = Idle
    /\ UNCHANGED <<restaurants, reservations, pc, frame, menu_items>>

\* Callers run concurrently: any call may start or resume at any time. The
\* store answers every round trip.
Next ==
    \/ Observe
    \/ last = Idle /\ \E p \in Procs, check \in RaceCalls.checks :
            checkAvailability(p, check, Reliable)
    \/ last = Idle /\ \E p \in Procs, input \in RaceCalls.creates :
            createReservation(p, input, Reliable)
    \/ last = Idle /\ \E p \in Procs, id \in RaceCalls.ids,
                         input \in RaceCalls.patches :
            updateReservation(p, id, input, Reliable)
    \/ last = Idle /\ \E p \in Procs, id \in RaceCalls.ids :
            cancelReservation(p, id, Reliable)
    \/ last = Idle /\ \E p \in Procs : Resume(p, Reliable)

Spec == Init /\ [][Next]_vars

\* No call starts while another is in flight. A round trip to the store
\* may fail.
Serial == last = Idle /\ \A q \in Procs : pc[q] = "idle"

SerialNext ==
    \/ Observe
    \/ Serial /\ \E p \in Procs, check \in SerialCalls.checks :
            checkAvailability(p, check, Unreliable)
    \/ Serial /\ \E p \in Procs, input \in SerialCalls.creates :
            createReservation(p, input, Unreliable)
    \/ Serial /\ \E p \in Procs, id \in SerialCalls.ids,
                    input \in SerialCalls.patches :
            updateReservation(p, id, input, Unreliable)
    \/ Serial /\ \E p \in Procs, id \in SerialCalls.ids :
            cancelReservation(p, id, Unreliable)
    \/ last = Idle /\ \E p \in Procs : Resume(p, Unreliable)

SerialSpec == Init /\ [][SerialNext]_vars

\* Calls one after the other, the updates setting status or guest contact
\* only. A round trip to the store may fail.
DetailNext ==
    \/ Observe
    \/ Serial /\ \E p \in Procs, check \in DetailCalls.checks :
            checkAvailability(p, check, Unreliable)
    \/ Serial /\ \E p \in Procs, input \in DetailCalls.creates :
            createReservation(p, input, Unreliable)
    \/ Serial /\ \E p \in Procs, id \in DetailCalls.ids,
                    input \in DetailCalls.patches :
            updateReservation(p, id, input, Unreliable)
    \/ Serial /\ \E p \in Procs, id \in DetailCalls.ids :
            cancelReservation(p, id, Unreliable)
    \/ last = Idle /\ \E p \in Procs : Resume(p, Unreliable)

DetailSpec == Init /\ [][DetailNext]_vars

\* Only createReservation, cancelReservation and checkAvailability calls,
\* running concurrently. The store answers every round trip.
RaceNext ==
    \/ Observe
    \/ last = Idle /\ \E p \in Procs, check \in RaceCalls.checks :
            checkAvailability(p, check, Reliable)
    \/ last = Idle /\ \E p \in Procs, input \in RaceCalls.creates :
            createReservation(p, input, Reliable)
    \/ last = Idle /\ \E p \in Procs, id \in RaceCalls.ids :
            cancelReservation(p, id, Reliable)
    \/ last = Idle /\ \E p \in Procs : Resume(p, Reliable)

RaceSpec == Init /\ [][RaceNext]_vars

\* Calls one after the other with party sizes of any sign. The store answers
\* every round trip.
AnySizeNext ==
    \/ Observe
    \/ Serial /\ \E p \in Procs, check \in AnySizeCalls.checks :
            checkAvailability(p, check, Reliable)
    \/ Serial /\ \E p \in Procs, input \in AnySizeCalls.creates :
            createReservation(p, input, Reliable)
    \/ Serial /\ \E p \in Procs, id \in AnySizeCalls.ids,
                    input \in AnySizeCalls.patches :
            updateReservation(p, id, input, Reliable)
    \/ Serial /\ \E p \in Procs, id \in AnySizeCalls.ids :
            cancelReservation(p, id, Reliable)
    \/ last = Idle /\ \E p \in Procs : Resume(p, Reliable)

AnySizeSpec == Init /\ [][AnySizeNext]_vars

\* Reservations are created and their status edited, one call after the
\* other, and summaries are asked for. The query of a summary may fail.
SummaryNext ==
    \/ Observe
    \/ Serial /\ \E p \in Procs, input \in SummaryCalls.creates :
            createReservation(p, input, Reliable)
    \/ Serial /\ \E p \in Procs, id \in SummaryCalls.ids,
                    input \in SummaryCalls.patches :
            updateReservation(p, id, input, Reliable)
    \/ Serial /\ \E p \in Procs, restaurant_id \in SummaryCalls.restaurants,
                    date_from \in SummaryCalls.dates,
                    date_to \in SummaryCalls.dates :
            getReservationSummary(p, restaurant_id, date_from, date_to,
                                  Unreliable)
    \/ last = Idle /\ \E p \in Procs : Resume(p, Reliable)

SummarySpec == Init /\ [][SummaryNext]_vars

\* The dashboard reorders menu items; calls run concurrently and a write
\* may fail.
MenuNext ==
    \/ Observe
    \/ last = Idle /\ \E p \in Procs, updates \in ReorderInputs :
            reorderMenuItems(p, updates)
    \/ last = Idle /\ \E p \in Procs : ReorderWrite(p, Unreliable)

MenuSpec == Init /\ [][MenuNext]_vars

\* One caller creates reservations, one call after the other, while another
\* caller moves and resizes reservations. The store answers every round
\* trip.
WritersNext ==
    \/ Observe
    \/ last = Idle /\ \E input \in RaceCalls.creates :
            createReservation("p1", input, Reliable)
    \/ last = Idle /\ \E id \in RaceCalls.ids, input \in RaceCalls.patches :
            updateReservation("p2", id, input, Reliable)
    \/ last = Idle /\ \E p \in Procs : Resume(p, Reliable)

WritersSpec == Init /\ [][WritersNext]_vars

\* Reservations are made and cancelled and the restaurant record is edited,
\* one call after the other. The store answers every round trip.
SeatsNext ==
    \/ Observe
    \/ Serial /\ \E p \in Procs, input \in RaceCalls.creates :
            createReservation(p, input, Reliable)
    \/ Serial /\ \E p \in Procs, id \in RaceCalls.ids :
            cancelReservation(p, id, Reliable)
    \/ Serial /\ \E p \in Procs, id \in {"r1", "r0"},
                    input \in RestaurantPatches :
            updateRestaurant(p, id, input, Reliable)
    \/ last = Idle /\ \E p \in Procs : Resume(p, Reliable)

SeatsSpec == Init /\ [][SeatsNext]_vars

\* ------------------------------------------------------------ properties
RECURSIVE PartySum(_, _)
\* The sum of party_size over the rows of tbl at the positions S.
PartySum(tbl, S) ==
    IF S = {} THEN 0
    ELSE LET i == CHOOSE x \in S : TRUE
         IN  tbl[i].party_size + PartySum(tbl, S \ {i})

\* The non-cancelled reservations of a slot.
ActiveAt(tbl, r, d, t) ==
    { i \in DOMAIN tbl :
        /\ tbl[i].status # "cancelled"
        /\ <<tbl[i].restaurant_id, tbl[i].reservation_date,
             tbl[i].reservation_time>> = <<r, d, t>> }

SeatsTaken(tbl, r, d, t) == PartySum(tbl, ActiveAt(tbl, r, d, t))

\* A restaurant's total_seats, a null total_seats being no seat.
Capacity(r) == IF restaurants[r] = Undefined THEN 0 ELSE Get(restaurants[r])

\* C1: under any interleaving of createReservation and cancelReservation
\* calls on a slot of the restaurant, the party sizes of the slot's
\* non-cancelled reservations never sum to more than its total_seats.
C1_NeverOversoldUnderRace ==
    \A d \in Dates, t \in Times :
        SeatsTaken(reservations, "r1", d, t) <= SeatsR1

\* C2: of two concurrent createReservation calls for a slot whose parties
\* fit alone but not together, both never succeed: no slot holds two
\* non-cancelled reservations that do not fit together.
C2_BothNeverSucceed ==
    \A i, j \in DOMAIN reservations :
        /\ i # j
        /\ {i, j} \subseteq ActiveAt(reservations,
                                     reservations[i].restaurant_id,
                                     reservations[i].reservation_date,
                                     reservations[i].reservation_time)
        => reservations[i].party_size + reservations[j].party_size
                <= Capacity(reservations[i].restaurant_id)

\* C3: when calls do not interleave, total_seats does not change and party
\* sizes are positive, after any sequence of create, cancel and update calls
\* whose patch touches only date, time or party_size, every slot's
\* non-cancelled party sizes sum to at most total_seats.
C3_SerialCapacity ==
    \A r \in ExistingRestaurants, d \in Dates, t \in Times :
        SeatsTaken(reservations, r, d, t) <= Capacity(r)

\* The slot's non-cancelled reservations other than reservation id.
OthersAt(tbl, id, r, d, t) == ActiveAt(tbl, r, d, t) \ {id}

\* C4: an update that changes only party_size of a non-cancelled reservation
\* succeeds whenever the other non-cancelled reservations of its slot plus
\* the new party size fit in total_seats: the reservation's own current
\* party size is not counted against it.
C4_UpdateExcludesSelf ==
    /\ last.op = "updateReservation"
    /\ last.faults = {}
    /\ Get(last.id) \in DOMAIN last.pre
    /\ last.arg.party_size # Undefined
    /\ last.arg = [NoPatch EXCEPT !.party_size = last.arg.party_size]
    /\ last.pre[Get(last.id)].status # "cancelled"
    /\ LET row == last.pre[Get(last.id)] IN
        PartySum(last.pre,
                 OthersAt(last.pre, row.id, row.restaurant_id,
                          row.reservation_date, row.reservation_time))
            + Get(last.arg.party_size) <= Capacity(row.restaurant_id)
    => /\ last.ret.error = Undefined
       /\ last.ret.data # Undefined
       /\ Get(last.ret.data).party_size = Get(last.arg.party_size)

\* C5: for an existing restaurant whose queries the store answers,
\* checkAvailability reports available exactly when the slot's non-cancelled
\* party sizes plus the requested party size are at most total_seats; it
\* reports that sum as current_bookings, total_seats, and when unavailable
\* the remaining capacity total_seats - current_bookings.
C5_AvailabilityRule ==
    /\ last.op = "checkAvailability"
    /\ last.faults = {}
    /\ last.arg.restaurant_id \in DOMAIN restaurants
    => LET c == last.arg
           currentBookings ==
               SeatsTaken(last.pre, c.restaurant_id, c.date, c.time)
           seats == Capacity(c.restaurant_id)
       IN  /\ last.ret.available <=> currentBookings + c.party_size <= seats
           /\ last.ret.current_bookings = Some(currentBookings)
           /\ last.ret.total_seats = Some(seats)
           /\ last.ret.available => last.ret.reason = Undefined
           /\ ~last.ret.available =>
                /\ last.ret.reason # Undefined
                /\ Get(last.ret.reason).text = "Not enough seats available."
                /\ Get(last.ret.reason).remaining = Some(seats - currentBookings)

\* 10 seats, 6 booked beside a cancelled reservation of the slot: a party of
\* 5 has just been refused with 4 remaining.
C5_Witness ==
    /\ last.op = "checkAvailability"
    /\ \E i \in DOMAIN last.pre :
        /\ last.pre[i].status = "cancelled"
        /\ last.pre[i].restaurant_id = last.arg.restaurant_id
        /\ last.pre[i].reservation_date = last.arg.date
        /\ last.pre[i].reservation_time = last.arg.time
    /\ last.faults = {}
    /\ last.arg.party_size = 5
    /\ last.arg.restaurant_id \in DOMAIN restaurants
    /\ Capacity(last.arg.restaurant_id) = SeatsR1
    /\ SeatsTaken(last.pre, last.arg.restaurant_id, last.arg.date,
                  last.arg.time) = SeatsR1 - 4
    /\ ~last.ret.available
    /\ Get(last.ret.reason).remaining = Some(4)

\* C6: cancelReservation(id) on an existing reservation returns success and
\* leaves the table as it was but for that reservation's status, which is
\* 'cancelled'; called again on the reservation it has cancelled, it returns
\* success again and leaves the table exactly as the first call left it.
C6_CancelIdempotent ==
    /\ last.op = "cancelReservation"
    /\ last.faults = {}
    /\ Get(last.id) \in DOMAIN last.pre
    => /\ last.ret = [success |-> TRUE, error |-> Undefined]
       /\ DOMAIN reservations = DOMAIN last.pre
       /\ \A i \in DOMAIN last.pre :
            reservations[i] =
                IF i = Get(last.id)
                THEN [last.pre[i] EXCEPT !.status = "cancelled"]
                ELSE last.pre[i]
       /\ last.pre[Get(last.id)].status = "cancelled" => reservations = last.pre

\* A cancelReservation has just returned success on a reservation that was
\* cancelled already, among other reservations.
C6_Witness ==
    /\ last.op = "cancelReservation"
    /\ last.faults = {}
    /\ Get(last.id) \in DOMAIN last.pre
    /\ Len(last.pre) > 1
    /\ last.pre[Get(last.id)].status = "cancelled"
    /\ last.ret.success
    /\ reservations = last.pre

\* C7: a cancelled reservation's party_size is no part of current_bookings
\* in a later checkAvailability for its slot: the check counts the slot's
\* other non-cancelled reservations only, and reports available whenever
\* these plus the requested party fit.
C7_CancelReleasesSeats ==
    /\ last.op = "checkAvailability"
    /\ last.faults = {}
    /\ last.arg.restaurant_id \in DOMAIN restaurants
    => \A i \in DOMAIN reservations :
        /\ reservations[i].status = "cancelled"
        /\ reservations[i].restaurant_id = last.arg.restaurant_id
        /\ reservations[i].reservation_date = last.arg.date
        /\ reservations[i].reservation_time = last.arg.time
        => LET others ==
                PartySum(reservations,
                    {j \in DOMAIN reservations \ {i} :
                        /\ reservations[j].restaurant_id = last.arg.restaurant_id
                        /\ reservations[j].reservation_date = last.arg.date
                        /\ reservations[j].reservation_time = last.arg.time
                        /\ reservations[j].status # "cancelled"})
           IN  /\ last.ret.current_bookings = Some(others)
               /\ others + last.arg.party_size
                    <= Capacity(last.arg.restaurant_id)
                  => last.ret.available

\* 10 seats, the reservation of 6 cancelled: a party of 5, which it alone
\* kept out, has just been reported available.
C7_Witness ==
    /\ last.op = "checkAvailability"
    /\ last.faults = {}
    /\ last.arg.party_size = 5
    /\ last.ret.available
    /\ \E i \in DOMAIN reservations :
        /\ reservations[i].status = "cancelled"
        /\ reservations[i].party_size = 6
        /\ reservations[i].restaurant_id = last.arg.restaurant_id
        /\ reservations[i].reservation_date = last.arg.date
        /\ reservations[i].reservation_time = last.arg.time
        /\ Capacity(reservations[i].restaurant_id) = 10

\* C8: a createReservation or updateReservation whose availability check
\* reported the slot unavailable returns data = null with the check's reason
\* as the error, and the table is what it was before the call.
C8_UnchangedOnUnavailable ==
    /\ last.op \in {"createReservation", "updateReservation"}
    /\ last.availability # Undefined
    /\ ~Get(last.availability).available
    => /\ last.ret.data = Undefined
       /\ last.ret.error = Get(last.availability).reason
       /\ reservations = last.pre

\* An updateReservation has just been refused for lack of seats.
C8_Witness ==
    /\ last.op = "updateReservation"
    /\ last.availability # Undefined
    /\ ~Get(last.availability).available
    /\ last.faults = {}
    /\ Get(last.ret.error).text = "Not enough seats available."
    /\ Len(reservations) > 1

\* C9: when the availability check of createReservation reports available
\* and the store accepts the insert, the table is the one before the call
\* with exactly one row added, which carries the input's restaurant, date,
\* time and party_size and status 'confirmed'; the call returns that row
\* with error = null.
C9_CreateInsertsConfirmed ==
    /\ last.op = "createReservation"
    /\ last.availability # Undefined
    /\ Get(last.availability).available
    /\ "write" \notin last.faults
    => /\ last.ret.error = Undefined
       /\ last.ret.data # Undefined
       /\ LET row == Get(last.ret.data) IN
            /\ row.restaurant_id = last.arg.restaurant_id
            /\ row.reservation_date = last.arg.reservation_date
            /\ row.reservation_time = last.arg.reservation_time
            /\ row.party_size = last.arg.party_size
            /\ row.status = "confirmed"
            /\ reservations = Append(last.pre, row)

\* A createReservation has just added a second reservation to a slot.
C9_Witness ==
    /\ last.op = "createReservation"
    /\ last.faults = {}
    /\ last.ret.data # Undefined
    /\ Len(last.pre) = 1
    /\ Len(reservations) = 2
    /\ reservations[1].reservation_date = reservations[2].reservation_date
    /\ reservations[1].status = "confirmed"

\* C10: for a restaurant identifier without a restaurant record,
\* checkAvailability returns available = false with the reason 'Restaurant
\* not found' whatever the date, time and party size, and createReservation
\* returns an error and inserts nothing.
C10_UnknownRestaurant ==
    /\ /\ last.op = "checkAvailability"
       /\ last.arg.restaurant_id \notin DOMAIN restaurants
       => /\ ~last.ret.available
          /\ last.ret.reason # Undefined
          /\ Get(last.ret.reason).text = "Restaurant not found"
    /\ /\ last.op = "createReservation"
       /\ last.arg.restaurant_id \notin DOMAIN restaurants
       => /\ last.ret.data = Undefined
          /\ last.ret.error # Undefined
          /\ reservations = last.pre

\* A createReservation for a restaurant without record has just failed, the
\* store having answered, with reservations in the table.
C10_Witness ==
    /\ last.op = "createReservation"
    /\ last.arg.restaurant_id \notin DOMAIN restaurants
    /\ last.faults = {}
    /\ Get(last.ret.error).text = "Restaurant not found"
    /\ Len(reservations) > 0

\* C11: for a restaurant whose total_seats is 0 or null, checkAvailability
\* reports every positive party size unavailable at every slot, and no
\* createReservation with a positive party size adds a reservation for it:
\* the table never holds a reservation of such a restaurant.
C11_NoSeatsNoReservation ==
    /\ /\ last.op \in {"checkAvailability", "createReservation"}
       /\ last.arg.restaurant_id \in DOMAIN restaurants
       /\ Capacity(last.arg.restaurant_id) = 0
       /\ last.arg.party_size > 0
       => /\ last.op = "checkAvailability" => ~last.ret.available
          /\ last.op = "createReservation" =>
                /\ last.ret.data = Undefined
                /\ last.ret.error # Undefined
                /\ reservations = last.pre
    /\ \A i \in DOMAIN reservations :
            Capacity(reservations[i].restaurant_id) > 0

\* A createReservation for the restaurant whose total_seats is null has just
\* been refused for lack of seats, none remaining, the store having answered.
C11_Witness ==
    /\ last.op = "createReservation"
    /\ last.arg.restaurant_id \in DOMAIN restaurants
    /\ restaurants[last.arg.restaurant_id] = Undefined
    /\ last.faults = {}
    /\ last.ret.data = Undefined
    /\ Get(last.ret.error).text = "Not enough seats available."
    /\ Get(last.ret.error).remaining = Some(0)
    /\ Len(reservations) > 0

\* C12: a party size <= 0 is rejected: checkAvailability does not report it
\* available, createReservation and updateReservation given one return an
\* error and leave the table as it was, and no stored reservation has
\* party_size <= 0.
C12_PartySizeValidated ==
    /\ \A i \in DOMAIN reservations : reservations[i].party_size > 0
    /\ /\ last.op = "checkAvailability"
       /\ last.arg.party_size <= 0
       => ~last.ret.available
    /\ /\ last.op = "createReservation"
       /\ last.arg.party_size <= 0
       => /\ last.ret.error # Undefined
          /\ reservations = last.pre
    /\ /\ last.op = "updateReservation"
       /\ last.arg.party_size # Undefined
       /\ Get(last.arg.party_size) <= 0
       => /\ last.ret.error # Undefined
          /\ reservations = last.pre

\* C13: reservation status only moves forward along pending -> confirmed ->
\* {cancelled, completed, no-show}: no step changes a reservation whose
\* status is 'cancelled', 'completed' or 'no-show' back to 'pending' or
\* 'confirmed', and a 'cancelled' reservation keeps its status.
C13_StatusMovesForward ==
    [][\A i \in DOMAIN reservations :
        /\ reservations[i].status \in {"cancelled", "completed", "no-show"}
            => reservations'[i].status \notin {"pending", "confirmed"}
        /\ reservations[i].status = "cancelled"
            => reservations'[i].status = "cancelled"]_vars

\* The slot's reservations in status 'pending' or 'confirmed'.
PendingOrConfirmedAt(tbl, r, d, t) ==
    { i \in DOMAIN tbl :
        /\ tbl[i].status \in {"pending", "confirmed"}
        /\ <<tbl[i].restaurant_id, tbl[i].reservation_date,
             tbl[i].reservation_time>> = <<r, d, t>> }

\* C14: only reservations in status 'pending' or 'confirmed' count toward
\* the booked seats: the current_bookings checkAvailability computes is the
\* sum of party_size over the slot's pending and confirmed reservations, a
\* 'completed' or 'no-show' one contributing nothing.
C14_OnlyPendingConfirmedCount ==
    /\ last.op = "checkAvailability"
    /\ last.faults = {}
    /\ last.arg.restaurant_id \in DOMAIN restaurants
    => last.ret.current_bookings =
        Some(PartySum(last.pre,
                PendingOrConfirmedAt(last.pre, last.arg.restaurant_id,
                                     last.arg.date, last.arg.time)))

\* C15: a store failure on the query of the slot's reservations is surfaced:
\* checkAvailability then returns available = false, and a createReservation
\* or updateReservation relying on it returns no data and leaves the table
\* as it was.
C15_FailedReadSurfaced ==
    /\ last.op \in {"checkAvailability", "createReservation",
                    "updateReservation"}
    /\ "bookings" \in last.faults
    => /\ ~Get(last.availability).available
       /\ last.op = "checkAvailability" => ~last.ret.available
       /\ last.op # "checkAvailability" =>
            /\ last.ret.data = Undefined
            /\ reservations = last.pre

\* The records a summary is about: those of the restaurant whose date lies
\* in the range asked for.
Returned(tbl, arg) ==
    { i \in DOMAIN tbl :
        /\ tbl[i].restaurant_id = arg.restaurant_id
        /\ arg.date_from # Undefined =>
                DateRank[tbl[i].reservation_date] >= DateRank[Get(arg.date_from)]
        /\ arg.date_to # Undefined =>
                DateRank[tbl[i].reservation_date] <= DateRank[Get(arg.date_to)] }

WithStatus(tbl, S, statuses) ==
    Cardinality({i \in S : tbl[i].status \in statuses})

\* C16: getReservationSummary yields total_reservations = the number of
\* records of the restaurant in the date range, confirmed = the number of
\* pending or confirmed ones, cancelled, completed and no_shows = the number
\* with that status, the four adding up to total_reservations, and
\* total_guests = the sum of party_size over all of them, the cancelled
\* included; when the store fails the query every field is 0.
C16_SummaryCounts ==
    last.op = "getReservationSummary" =>
        IF last.faults # {}
        THEN last.ret = EmptySummary
        ELSE LET S == Returned(last.pre, last.arg)
                 r == last.ret
             IN  /\ r.total_reservations = Cardinality(S)
                 /\ r.confirmed =
                        WithStatus(last.pre, S, {"pending", "confirmed"})
                 /\ r.cancelled = WithStatus(last.pre, S, {"cancelled"})
                 /\ r.completed = WithStatus(last.pre, S, {"completed"})
                 /\ r.no_shows = WithStatus(last.pre, S, {"no-show"})
                 /\ r.confirmed + r.cancelled + r.completed + r.no_shows
                        = r.total_reservations
                 /\ r.total_guests = PartySum(last.pre, S)

\* A summary over a date range has just counted one cancelled reservation
\* with its guests and left a reservation of another date out.
C16_Witness ==
    /\ last.op = "getReservationSummary"
    /\ last.faults = {}
    /\ last.arg.date_from # Undefined
    /\ Len(last.pre) = 2
    /\ last.ret.total_reservations = 1
    /\ last.ret.cancelled = 1
    /\ last.ret.total_guests = 4

\* C17: reorderMenuItems reports the aggregate outcome of its writes: it
\* returns success = false with an error whenever at least one write failed
\* and success = true only when every write succeeded.
C17_ReorderReportsFailure ==
    last.op = "reorderMenuItems" =>
        /\ last.ret.success <=> last.faults = {}
        /\ ~last.ret.success => last.ret.error # Undefined

\* C18: the check-and-write of an update is atomic with respect to the
\* other writers of the slot: an updateReservation that moves or resizes a
\* reservation into a slot and a concurrent createReservation for that slot
\* whose combined demand exceeds the remaining seats never both succeed, so
\* no reservation sits in a slot booked beyond total_seats.
C18_UpdateAtomicWithWriters ==
    \A i \in DOMAIN reservations :
        LET row == reservations[i] IN
        row.status # "cancelled" =>
            SeatsTaken(reservations, row.restaurant_id, row.reservation_date,
                       row.reservation_time) <= Capacity(row.restaurant_id)

\* C19: total_seats stays a hard ceiling when the restaurant record is
\* edited: after any sequence of reservation operations and updateRestaurant
\* calls that change total_seats, in every slot of the restaurant the party
\* sizes of the non-cancelled reservations sum to at most the restaurant's
\* current total_seats.
C19_CeilingAfterRestaurantEdit ==
    \A r \in DOMAIN restaurants, d \in Dates, t \in Times :
        PartySum(reservations, ActiveAt(reservations, r, d, t))
            <= OrNum(restaurants[r], 0)

\* C20: an updateReservation whose patch sets none of reservation_date,
\* reservation_time and party_size performs no availability check and, for
\* an existing reservation and a write the store accepts, returns the
\* updated record however full the reservation's slot is; only the patched
\* fields of that one reservation change.
C20_DetailPatchBypassesCheck ==
    /\ last.op = "updateReservation"
    /\ last.arg.reservation_date = Undefined
    /\ last.arg.reservation_time = Undefined
    /\ last.arg.party_size = Undefined
    /\ Get(last.id) \in DOMAIN last.pre
    /\ "write" \notin last.faults
    => /\ last.availability = Undefined
       /\ last.faults = {}
       /\ last.ret.error = Undefined
       /\ last.ret.data # Undefined
       /\ DOMAIN reservations = DOMAIN last.pre
       /\ \A i \in DOMAIN last.pre \ {Get(last.id)} :
            reservations[i] = last.pre[i]
       /\ LET old == last.pre[Get(last.id)]
              new == reservations[Get(last.id)]
          IN  /\ Get(last.ret.data) = new
              /\ new.id = old.id
              /\ new.restaurant_id = old.restaurant_id
              /\ new.reservation_date = old.reservation_date
              /\ new.reservation_time = old.reservation_time
              /\ new.party_size = old.party_size
              /\ new.status = IF last.arg.status = Undefined THEN old.status
                              ELSE Get(last.arg.status)
              /\ new.guest_name =
                    IF last.arg.guest_name = Undefined THEN old.guest_name
                    ELSE Get(last.arg.guest_name)

\* A reservation in a slot booked to its last seat has just been set to
\* 'no-show' by updateReservation, which returned the updated record.
C20_Witness ==
    /\ last.op = "updateReservation"
    /\ last.arg.status = Some("no-show")
    /\ Get(last.id) \in DOMAIN last.pre
    /\ LET old == last.pre[Get(last.id)] IN
        /\ old.status = "confirmed"
        /\ SeatsTaken(last.pre, old.restaurant_id, old.reservation_date,
                      old.reservation_time) >= Capacity(old.restaurant_id)
    /\ last.ret.data # Undefined
    /\ Get(last.ret.data).status = "no-show"
    /\ reservations[Get(last.id)].status = "no-show"

\* C21: updateReservation on an identifier that has no reservation record
\* returns a failure result, data = null with an error, which is
\* 'Reservation not found' when the patch touches date, time or party_size,
\* and changes no record, whatever the patch contains.
C21_UpdateOfMissingFails ==
    /\ last.op = "updateReservation"
    /\ Get(last.id) \notin DOMAIN last.pre
    => /\ last.ret.data = Undefined
       /\ last.ret.error # Undefined
       /\ reservations = last.pre
       /\ \/ last.arg.reservation_date # Undefined
          \/ last.arg.reservation_time # Undefined
          \/ last.arg.party_size # Undefined
          => Get(last.ret.error).text = "Reservation not found"

\* C22: cancelReservation on an identifier that has no reservation record
\* reports the absence as a failure, success = false with an error, and
\* changes no record.
C22_CancelOfMissingFails ==
    /\ last.op = "cancelReservation"
    /\ Get(last.id) \notin DOMAIN last.pre
    => /\ ~last.ret.success
       /\ last.ret.error # Undefined
       /\ reservations = last.pre

\* Whether a row belongs to the slot (r, d, t).
AtSlot(row, r, d, t) ==
    <<row.restaurant_id, row.reservation_date, row.reservation_time>>
        = <<r, d, t>>

\* Stores that agree with tbl on the reservations of the slot (r, d, t) and
\* differ elsewhere: a reservation of another slot is replaced by some
\* reservation of another slot, or the last reservations, none of them of
\* the slot, are missing.
AgreeingAt(tbl, r, d, t) ==
    { [tbl EXCEPT ![i] = [@ EXCEPT !.restaurant_id = o.restaurant_id,
                                   !.reservation_date = o.reservation_date,
                                   !.party_size = o.party_size,
                                   !.status = o.status]] :
        i \in {j \in DOMAIN tbl : ~AtSlot(tbl[j], r, d, t)},
        o \in {x \in [restaurant_id : ExistingRestaurants,
                      reservation_date : Dates,
                      reservation_time : Times,
                      party_size : {4, 8},
                      status : {"confirmed", "cancelled"}] :
                    ~AtSlot(x, r, d, t)} }
    \cup { SubSeq(tbl, 1, n) :
             n \in {m \in 0..Len(tbl) :
                      \A j \in (m + 1)..Len(tbl) : ~AtSlot(tbl[j], r, d, t)} }

\* What the store tbl answers the query of the slot's party sizes.
PartySizesOn(tbl, r, d, t) ==
    [data |-> Some([i \in SlotFilter(tbl, r, d, t) |-> tbl[i].party_size]),
     error |-> Undefined]

\* The slot a call is about, as the availability check names it.
SlotOf(call) ==
    IF call.op = "checkAvailability" THEN call.arg
    ELSE [restaurant_id |-> call.arg.restaurant_id,
          date |-> call.arg.reservation_date,
          time |-> call.arg.reservation_time,
          party_size |-> call.arg.party_size]

\* C23: slots are independent. The result of checkAvailability and the
\* success or failure of createReservation for a slot are those every store
\* gives that agrees on the restaurant's total_seats and on the reservations
\* of exactly that slot, whatever it holds at other restaurants, dates or
\* times; and a create or cancel at one slot leaves the booked seats of
\* every other slot what they were.
C23_SlotsIndependent ==
    /\ /\ last.op \in {"checkAvailability", "createReservation"}
       /\ last.faults = {}
       /\ last.arg.restaurant_id \in DOMAIN restaurants
       => LET c == SlotOf(last) IN
          \A tbl \in AgreeingAt(last.pre, c.restaurant_id, c.date, c.time) :
            LET res == AvailabilityOf(c,
                          [total_seats |-> restaurants[c.restaurant_id]],
                          PartySizesOn(tbl, c.restaurant_id, c.date, c.time))
            IN  /\ last.op = "checkAvailability" => last.ret = res
                /\ last.op = "createReservation" =>
                        (last.ret.data # Undefined <=> res.available)
    /\ last.op \in {"createReservation", "cancelReservation"} =>
        \A r \in RestaurantIds, d \in Dates, t \in Times :
            \/ /\ last.op = "createReservation"
               /\ <<r, d, t>> = <<last.arg.restaurant_id,
                                  last.arg.reservation_date,
                                  last.arg.reservation_time>>
            \/ /\ last.op = "cancelReservation"
               /\ Get(last.id) \in DOMAIN last.pre
               /\ AtSlot(last.pre[Get(last.id)], r, d, t)
            \/ TotalBooked(PartySizesOn(reservations, r, d, t))
                    = TotalBooked(PartySizesOn(last.pre, r, d, t))

\* A party of 6 has just been refused at a slot holding 6 seats while the
\* restaurant holds a reservation at another date too.
C23_Witness ==
    /\ last.op = "checkAvailability"
    /\ last.faults = {}
    /\ last.arg.party_size = 6
    /\ ~last.ret.available
    /\ last.ret.current_bookings = Some(6)
    /\ Len(last.pre) = 2
    /\ last.pre[1].status = "confirmed"
    /\ last.pre[2].status = "confirmed"
    /\ last.pre[1].restaurant_id = last.pre[2].restaurant_id
    /\ last.pre[1].reservation_date # last.pre[2].reservation_date

====
